---- MODULE Spec2Model ----
(***************************************************************************)
(* Approval workflow of the campus portal: the approval-decision processor *)
(* (process-approval edge function) with its in-memory rate limiter, the   *)
(* approval-request issuer (send-approval-email edge function), the club   *)
(* submission form, and the tables they share (pending_approvals, clubs,   *)
(* shops).  Every handler is cut at its awaits on the database or on the   *)
(* e-mail provider: the code between two such awaits touches no shared     *)
(* state and is one atomic step.                                           *)
(*                                                                         *)
(* Time is counted in whole seconds (the code counts milliseconds; every   *)
(* duration it compares is a whole number of seconds).                     *)
(***************************************************************************)
EXTENDS Integers, Sequences, FiniteSets, TLC

VARIABLES
  now,               \* Date.now(), in seconds
  rateLimiter,       \* key -> timestamps of the accepted requests kept
  accepted,          \* history: key -> timestamps of all accepted requests
  pending_approvals, \* the table, in insertion order; a row's id is its index
  clubs,             \* club id -> row, or NoRow
  shops,             \* shop id -> row, or NoRow
  nextToken,         \* crypto.randomUUID(): the next identifier never drawn
  dreq,              \* the decision requests in flight, by slot
  ireq,              \* the issuer request in flight
  form,              \* the club submission form
  ar,                \* the AR view in the browser: its state, effects, resources
  objects,           \* storage.objects: the objects stored, by bucket and path
  mail,              \* the e-mail the issuer last composed
  ev                 \* what the last step answered or did (NoEvent if nothing)

vars == <<now, rateLimiter, accepted, pending_approvals, clubs, shops, nextToken,
          dreq, ireq, form, ar, objects, mail, ev>>

(* ------------------------------ bounds ------------------------------- *)
MaxRows == 2            \* pending_approvals rows ever inserted
MaxClubs == 1           \* clubs rows ever inserted
MaxShops == 1           \* shops rows ever inserted
MaxInFlight == 2        \* decision requests in flight at once
MaxDecisions == 2       \* decision requests accepted per window, workflow runs
MaxDays == 1            \* days the clock runs past the 30 days of the expiry
TickSecs == 30          \* the step of the clock in the rate-limiter runs
MaxTicks == 2           \* steps of the clock in the rate-limiter runs
MaxEffects == 3         \* runs of the AR view's effect
MaxOtherKey == 2        \* requests per window of the second key, rate-limiter runs

(* -------------------------- program constants ------------------------ *)
RATE_LIMIT_WINDOW_MS == 60000
MAX_REQUESTS_PER_WINDOW == 10
RateWindowSecs == RATE_LIMIT_WINDOW_MS \div 1000
ExpirySecs == 30 * 24 * 60 * 60      \* 30 * 24 * 60 * 60 * 1000 ms
DaySecs == 24 * 60 * 60

Null == [null |-> TRUE]

(* ------------------------------ strings ------------------------------ *)
(* A string is its first characters followed by `fill` more letters "a": *)
(* enough to tell lengths, white space, "@" and "." apart.               *)
Str(chars, fill) == [str |-> TRUE, chars |-> chars, fill |-> fill]
NotAString == [str |-> FALSE, chars |-> <<>>, fill |-> 0]   \* a number, say
Length(s) == Len(s.chars) + s.fill
Expand(s) == IF s.fill > 0 THEN s.chars \o <<"a">> ELSE s.chars

(* A UUID-like string: the lengths of its "-"-separated groups, whether  *)
(* all their characters are hex digits, and which identifier it spells.  *)
Uuid(id) == [str |-> TRUE, groups |-> <<8, 4, 4, 4, 12>>, hex |-> TRUE, id |-> id]
RECURSIVE SumSeq(_)
SumSeq(q) == IF q = <<>> THEN 0 ELSE Head(q) + SumSeq(Tail(q))
IdLength(t) == IF t.groups = <<>> THEN 0 ELSE SumSeq(t.groups) + Len(t.groups) - 1

\* any groups of hex digits pass
uuidRegexTestAnyGroups(t) == t.hex
\* /^[0-9a-f]{8}-[0-9a-f]{4}-[0-9a-f]{4}-[0-9a-f]{4}-[0-9a-f]{12}$/i
uuidRegexTest(t) == t.hex /\ t.groups = <<8, 4, 4, 4, 12>>

(* ---------------------------- rate limiter --------------------------- *)
\* req.headers.get('x-forwarded-for')?.split(',')[0]?.trim() || 'unknown'
RECURSIVE TrimLeft(_)
TrimLeft(q) == IF q # <<>> /\ Head(q) = " " THEN TrimLeft(Tail(q)) ELSE q
RECURSIVE TrimRight(_)
TrimRight(q) ==
  IF q # <<>> /\ q[Len(q)] = " " THEN TrimRight(SubSeq(q, 1, Len(q) - 1)) ELSE q
Trim(q) == TrimRight(TrimLeft(q))
Unknown == <<"unknown">>
\* a header, when present, is given split at its commas (never an empty list)
Header(entries) == [present |-> TRUE, entries |-> entries]
NoHeader == [present |-> FALSE, entries |-> <<>>]
clientIp(hdr) ==
  IF ~hdr.present THEN Unknown
  ELSE IF Trim(hdr.entries[1]) = <<>> THEN Unknown ELSE Trim(hdr.entries[1])

HeaderInputs ==
  { NoHeader, Header(<< <<>> >>), Header(<< <<"a">> >>),
    Header(<< <<" ", "a", " ">>, <<"b">> >>) }
Keys == { clientIp(h) : h \in HeaderInputs }

\* a timestamp exactly one window old still counts
recentRequestsInclusive(ip) ==
  LET Recent(t) == now - t <= RateWindowSecs IN SelectSeq(rateLimiter[ip], Recent)
recentRequests(ip) ==
  LET Recent(t) == now - t < RateWindowSecs IN SelectSeq(rateLimiter[ip], Recent)
checkRateLimit(ip) == Len(recentRequests(ip)) < MAX_REQUESTS_PER_WINDOW
\* the rejected request is recorded too
rateLimiterRecordsAll(ip) ==
  [rateLimiter EXCEPT ![ip] = Append(recentRequests(ip), now)]
\* one list of timestamps for all the keys
rateLimiterOneAllowance(ip) ==
  IF checkRateLimit(ip)
  THEN [k \in DOMAIN rateLimiter |-> Append(recentRequests(k), now)]
  ELSE rateLimiter
\* lines 24-29: what the map holds after the call
rateLimiterAfter(ip) ==
  IF checkRateLimit(ip)
  THEN [rateLimiter EXCEPT ![ip] = Append(recentRequests(ip), now)]
  ELSE rateLimiter

(* ------------------------------ database ----------------------------- *)
NoRow == [exists |-> FALSE, status |-> "", approval_token |-> 0, submitted_by |-> ""]
ClubIds == { <<"club", n>> : n \in 1..MaxClubs }
ShopIds == { <<"shop", n>> : n \in 1..MaxShops }
ItemIds == ClubIds \cup ShopIds
TokenIds == 1..MaxRows          \* the identifiers randomUUID may return
NoToken == 0                    \* a well-formed UUID that was never issued

Table(name) == IF name = "shops" THEN shops ELSE clubs
HasRow(name, id) == id \in DOMAIN Table(name) /\ Table(name)[id].exists
\* from(name).update(patch).eq('id', id): the row, when there is one, with the
\* patch applied; updating no row is no error
UpdateRow(name, id, field, val) ==
  IF HasRow(name, id)
  THEN [Table(name) EXCEPT ![id] = [Table(name)[id] EXCEPT ![field] = val]]
  ELSE Table(name)

(* ------------------------- decision processor ------------------------ *)
NoEvent == [type |-> "none"]
Slots == 1..MaxInFlight
IdleReq ==
  [pc |-> "idle", key |-> <<>>, token |-> 0, action |-> "", approval |-> 0,
   item_type |-> "", item_id |-> <<>>,
   \* history of the request, for the properties: whether it came in with the
   \* token of a row already decided, the case its lookup met, what it did
   late |-> FALSE, case |-> "", looked |-> FALSE, findError |-> FALSE,
   wroteApproval |-> FALSE, wroteItem |-> FALSE,
   malformed |-> FALSE, approvalError |-> FALSE, itemError |-> FALSE]

\* validateInput(token, action)
validateInput(token, action) ==
  IF ~token.str \/ IdLength(token) = 0 \/ IdLength(token) > 100
  THEN [valid |-> FALSE, error |-> "Invalid request"]
  ELSE IF ~uuidRegexTest(token)
  THEN [valid |-> FALSE, error |-> "Invalid request"]
  ELSE IF action # "approve" /\ action # "reject"
  THEN [valid |-> FALSE, error |-> "Invalid request"]
  ELSE [valid |-> TRUE, error |-> ""]

NotJson == [json |-> FALSE]
TokenInputs ==
  { Uuid(i) : i \in TokenIds \cup {NoToken} } \cup
  { [str |-> FALSE, groups |-> <<>>, hex |-> FALSE, id |-> 0],          \* a number
    [str |-> TRUE, groups |-> <<>>, hex |-> TRUE, id |-> 0],            \* ""
    [str |-> TRUE, groups |-> <<101>>, hex |-> TRUE, id |-> 0],         \* too long
    [str |-> TRUE, groups |-> <<8, 4, 4, 4, 11>>, hex |-> TRUE, id |-> 0],
    [str |-> TRUE, groups |-> <<8, 4, 4, 4, 12>>, hex |-> FALSE, id |-> 0] }
ActionInputs == { "approve", "reject", "delete" }
DecisionBodies ==
  { NotJson } \cup
  { [json |-> TRUE, token |-> t, action |-> a] : t \in TokenInputs, a \in ActionInputs }

\* the bodies that carry a canonical UUID and one of the two actions
WellFormedBodies ==
  { [json |-> TRUE, token |-> Uuid(i), action |-> a] :
      i \in TokenIds \cup {NoToken}, a \in {"approve", "reject"} }

NoLimiter ==
  [key |-> <<>>, allowed |-> TRUE, histRecent |-> 0, called |-> FALSE,
   header |-> NoHeader, wellFormed |-> FALSE]
\* a response of the decision processor to the request `req`
DecisionResponse(req, status, body, limiter) ==
  [type |-> "decision", status |-> status, body |-> body, req |-> req,
   limiter |-> limiter]

ProcessingFailed == "Processing failed. Please try again."
NotFoundOrExpired == "This approval link is invalid, expired, or already processed."
TooManyRequests == "Too many requests. Please try again later."

RowsWithToken(t) ==
  { i \in 1..Len(pending_approvals) : pending_approvals[i].approval_token = t }
\* which of the cases of the lookup a token is in, read off the table
CaseOf(t) ==
  IF RowsWithToken(t) = {} THEN "absent"
  ELSE LET r == pending_approvals[CHOOSE i \in RowsWithToken(t) : TRUE] IN
       IF r.status # "pending" THEN "decided"
       ELSE IF r.created_at < now - ExpirySecs THEN "expired" ELSE "live"

FreeSlots == { s \in Slots : dreq[s].pc = "idle" }

\* the body is parsed and validated before the limiter is asked
ReceiveParsesFirst(hdr, body) ==
  /\ FreeSlots # {}
  /\ LET s == CHOOSE f \in FreeSlots : \A g \in FreeSlots : f <= g
         ip == clientIp(hdr)
         allowed == checkRateLimit(ip)
         limiter == [key |-> ip, allowed |-> allowed, called |-> TRUE,
                     header |-> hdr, wellFormed |-> body \in WellFormedBodies,
                     histRecent |-> Cardinality({ i \in 1..Len(accepted[ip]) :
                                       now - accepted[ip][i] < RateWindowSecs })]
         req == [IdleReq EXCEPT !.key = ip,
                   !.malformed = body # NotJson /\ body \notin WellFormedBodies,
                   !.late = body # NotJson /\ body.token.str
                            /\ uuidRegexTest(body.token)
                            /\ CaseOf(body.token.id) = "decided"]
     IN
     /\ IF body = NotJson
        THEN /\ ev' = DecisionResponse(req, 500, ProcessingFailed, NoLimiter)
             /\ dreq' = dreq
             /\ UNCHANGED <<rateLimiter, accepted>>
        ELSE IF ~validateInput(body.token, body.action).valid
        THEN /\ ev' = DecisionResponse(req, 400,
                        validateInput(body.token, body.action).error, NoLimiter)
             /\ dreq' = dreq
             /\ UNCHANGED <<rateLimiter, accepted>>
        ELSE IF ~allowed
        THEN /\ ev' = DecisionResponse(req, 429, TooManyRequests, limiter)
             /\ dreq' = dreq
             /\ UNCHANGED <<rateLimiter, accepted>>
        ELSE /\ rateLimiter' = rateLimiterAfter(ip)
             /\ accepted' = [accepted EXCEPT ![ip] = Append(@, now)]
             /\ ev' = [type |-> "received", limiter |-> limiter]
             /\ dreq' = [dreq EXCEPT ![s] =
                  [req EXCEPT !.pc = "find", !.token = body.token.id,
                     !.action = body.action]]
  /\ UNCHANGED <<ar, objects, mail, now, pending_approvals, clubs, shops, nextToken, ireq, form>>

\* lines 49-82: the rate limiter, req.json() and validateInput
Receive(hdr, body) ==
  /\ FreeSlots # {}
  /\ LET s == CHOOSE f \in FreeSlots : \A g \in FreeSlots : f <= g
         ip == clientIp(hdr)
         allowed == checkRateLimit(ip)
         limiter == [key |-> ip, allowed |-> allowed, called |-> TRUE,
                     header |-> hdr, wellFormed |-> body \in WellFormedBodies,
                     histRecent |-> Cardinality({ i \in 1..Len(accepted[ip]) :
                                       now - accepted[ip][i] < RateWindowSecs })]
         req == [IdleReq EXCEPT !.key = ip,
                   !.malformed = body # NotJson /\ body \notin WellFormedBodies,
                   !.late = body # NotJson /\ body.token.str
                            /\ uuidRegexTest(body.token)
                            /\ CaseOf(body.token.id) = "decided"]
     IN
     /\ rateLimiter' = rateLimiterAfter(ip)
     /\ accepted' = IF allowed THEN [accepted EXCEPT ![ip] = Append(@, now)]
                    ELSE accepted
     /\ IF ~allowed
        THEN /\ ev' = DecisionResponse(req, 429, TooManyRequests, limiter)
             /\ dreq' = dreq
        ELSE IF body = NotJson
        THEN /\ ev' = DecisionResponse(req, 500, ProcessingFailed, limiter)
             /\ dreq' = dreq
        ELSE IF ~validateInput(body.token, body.action).valid
        THEN /\ ev' = DecisionResponse(req, 400,
                        validateInput(body.token, body.action).error, limiter)
             /\ dreq' = dreq
        ELSE /\ ev' = [type |-> "received", limiter |-> limiter]
             /\ dreq' = [dreq EXCEPT ![s] =
                  [req EXCEPT !.pc = "find", !.token = body.token.id,
                     !.action = body.action]]
  /\ UNCHANGED <<ar, objects, mail, now, pending_approvals, clubs, shops, nextToken, ireq, form>>

\* lines 85-91: .eq("approval_token", token).eq("status", "pending")
\*              .gte("created_at", now - 30 days)
\* the lookup without the filter on the status
MatchingAnyStatus(token) ==
  { i \in 1..Len(pending_approvals) :
      /\ pending_approvals[i].approval_token = token
      /\ pending_approvals[i].created_at >= now - ExpirySecs }
\* the lookup without the filter on the age
MatchingAnyAge(token) ==
  { i \in 1..Len(pending_approvals) :
      /\ pending_approvals[i].approval_token = token
      /\ pending_approvals[i].status = "pending" }
\* the lookup that wants the row younger than 30 days
MatchingYounger(token) ==
  { i \in 1..Len(pending_approvals) :
      /\ pending_approvals[i].approval_token = token
      /\ pending_approvals[i].status = "pending"
      /\ pending_approvals[i].created_at > now - ExpirySecs }
Matching(token) ==
  { i \in 1..Len(pending_approvals) :
      /\ pending_approvals[i].approval_token = token
      /\ pending_approvals[i].status = "pending"
      /\ pending_approvals[i].created_at >= now - ExpirySecs }

\* lines 84-106: the lookup; maybeSingle() gives the row, null for no row, and
\* an error for several rows
Find(s, fails) ==
  /\ dreq[s].pc = "find"
  /\ LET req == [dreq[s] EXCEPT !.case = CaseOf(dreq[s].token), !.findError = fails,
                                !.looked = TRUE]
         found == Matching(req.token)
     IN
     IF fails \/ Cardinality(found) > 1
     THEN /\ ev' = DecisionResponse([req EXCEPT !.findError = TRUE], 500,
                                    ProcessingFailed, NoLimiter)
          /\ dreq' = [dreq EXCEPT ![s] = IdleReq]
     ELSE IF found = {}
     THEN /\ ev' = DecisionResponse(req, 400, NotFoundOrExpired, NoLimiter)
          /\ dreq' = [dreq EXCEPT ![s] = IdleReq]
     ELSE LET id == CHOOSE i \in found : TRUE IN
          /\ ev' = NoEvent
          /\ dreq' = [dreq EXCEPT ![s] =
               [req EXCEPT !.pc = "updateApproval", !.approval = id,
                  !.item_type = pending_approvals[id].item_type,
                  !.item_id = pending_approvals[id].item_id]]
  /\ UNCHANGED <<ar, objects, mail, now, rateLimiter, accepted, pending_approvals, clubs, shops,
                 nextToken, ireq, form>>

newStatus(action) == IF action = "approve" THEN "approved" ELSE "rejected"

\* the failed write is passed over and the item is written next
UpdateApprovalGoesOn(s, fails) ==
  /\ dreq[s].pc = "updateApproval"
  /\ pending_approvals' =
       IF fails THEN pending_approvals
       ELSE [pending_approvals EXCEPT ![dreq[s].approval].status =
                                        newStatus(dreq[s].action)]
  /\ ev' = NoEvent
  /\ dreq' = [dreq EXCEPT ![s].pc = "updateItem", ![s].wroteApproval = ~fails,
                          ![s].approvalError = fails]
  /\ UNCHANGED <<ar, objects, mail, now, rateLimiter, accepted, clubs, shops, nextToken, ireq, form>>

\* lines 108-121: the write of the approval's status
UpdateApproval(s, fails) ==
  /\ dreq[s].pc = "updateApproval"
  /\ IF fails
     THEN /\ ev' = DecisionResponse([dreq[s] EXCEPT !.approvalError = TRUE], 500,
                                    ProcessingFailed, NoLimiter)
          /\ dreq' = [dreq EXCEPT ![s] = IdleReq]
          /\ UNCHANGED pending_approvals
     ELSE /\ pending_approvals' =
               [pending_approvals EXCEPT ![dreq[s].approval].status =
                                           newStatus(dreq[s].action)]
          /\ ev' = NoEvent
          /\ dreq' = [dreq EXCEPT ![s].pc = "updateItem", ![s].wroteApproval = TRUE]
  /\ UNCHANGED <<ar, objects, mail, now, rateLimiter, accepted, clubs, shops, nextToken, ireq, form>>

tableName(item_type) == IF item_type = "shop" THEN "shops" ELSE "clubs"
SuccessMessage(item_type, status) ==
  <<IF item_type = "shop" THEN "Shop" ELSE "Club", " has been ", status>>

\* the failed write of the item puts the approval back to pending
UpdateItemRollsBack(s, fails) ==
  /\ dreq[s].pc = "updateItem"
  /\ LET req == dreq[s]
         name == tableName(req.item_type)
         table == UpdateRow(name, req.item_id, "status", newStatus(req.action))
     IN
     IF fails
     THEN /\ ev' = DecisionResponse([req EXCEPT !.itemError = TRUE], 500,
                                    ProcessingFailed, NoLimiter)
          /\ pending_approvals' =
               [pending_approvals EXCEPT ![req.approval].status = "pending"]
          /\ UNCHANGED <<clubs, shops>>
     ELSE /\ ev' = DecisionResponse([req EXCEPT !.wroteItem = TRUE], 200,
                     SuccessMessage(req.item_type, newStatus(req.action)), NoLimiter)
          /\ shops' = IF name = "shops" THEN table ELSE shops
          /\ clubs' = IF name = "clubs" THEN table ELSE clubs
          /\ UNCHANGED pending_approvals
  /\ dreq' = [dreq EXCEPT ![s] = IdleReq]
  /\ UNCHANGED <<ar, objects, mail, now, rateLimiter, accepted, nextToken, ireq, form>>

\* lines 123-146: the write of the item's status, and the answer
UpdateItem(s, fails) ==
  /\ dreq[s].pc = "updateItem"
  /\ LET req == dreq[s]
         name == tableName(req.item_type)
         table == UpdateRow(name, req.item_id, "status", newStatus(req.action))
     IN
     IF fails
     THEN /\ ev' = DecisionResponse([req EXCEPT !.itemError = TRUE], 500,
                                    ProcessingFailed, NoLimiter)
          /\ UNCHANGED <<clubs, shops>>
     ELSE /\ ev' = DecisionResponse([req EXCEPT !.wroteItem = TRUE], 200,
                     SuccessMessage(req.item_type, newStatus(req.action)), NoLimiter)
          /\ shops' = IF name = "shops" THEN table ELSE shops
          /\ clubs' = IF name = "clubs" THEN table ELSE clubs
  /\ dreq' = [dreq EXCEPT ![s] = IdleReq]
  /\ UNCHANGED <<ar, objects, mail, now, rateLimiter, accepted, pending_approvals, nextToken, ireq, form>>

(* ---------------------- approval-request issuer ---------------------- *)
Undefined == [undefined |-> TRUE]

\* /^[^\s@]+@[^\s@]+\.[^\s@]+$/
emailRegexTest(s) ==
  LET w == Expand(s)
      Plain(a, b) == a <= b /\ \A k \in a..b : w[k] \notin {" ", "@"}
  IN \E i \in 1..Len(w), j \in 1..Len(w) :
       /\ w[i] = "@" /\ w[j] = "."
       /\ Plain(1, i - 1) /\ Plain(i + 1, j - 1) /\ Plain(j + 1, Len(w))

\* a name of 201 characters passes
requiredTextLax(s) == s.str /\ Length(s) # 0 /\ Length(s) <= 201
\* lines 39 and 44: a required string of at most 200 characters
requiredText(s) == s.str /\ Length(s) # 0 /\ Length(s) <= 200

\* validateApprovalEmailInput(data)
validateApprovalEmailInput(data) ==
  LET bad(error) == [valid |-> FALSE, error |-> error] IN
  IF ~data.object THEN bad("Invalid request data")
  ELSE IF data.itemType # "shop" /\ data.itemType # "club" THEN bad("Invalid item type")
  ELSE IF ~data.itemId.str \/ ~uuidRegexTest(data.itemId) THEN bad("Invalid item ID")
  ELSE IF ~requiredText(data.itemName) THEN bad("Invalid item name")
  ELSE IF ~requiredText(data.submitterName) THEN bad("Invalid submitter name")
  ELSE IF ~data.submitterEmail.str \/ ~emailRegexTest(data.submitterEmail)
            \/ Length(data.submitterEmail) > 255 THEN bad("Invalid submitter email")
  ELSE IF ~data.facultyEmail.str \/ ~emailRegexTest(data.facultyEmail)
            \/ Length(data.facultyEmail) > 255 THEN bad("Invalid faculty email")
  ELSE IF data.description # Undefined /\ data.description # Null
            /\ (~data.description.str \/ Length(data.description) > 2000)
       THEN bad("Invalid description")
  ELSE [valid |-> TRUE, error |-> ""]

GoodEmail == Str(<<"a", "@", "b", ".", "c">>, 0)
GoodBody(itemType, itemId) ==
  [object |-> TRUE, itemType |-> itemType, itemId |-> Uuid(itemId),
   itemName |-> Str(<<"R">>, 12), submitterName |-> Str(<<"D">>, 4),
   submitterEmail |-> GoodEmail, facultyEmail |-> GoodEmail,
   description |-> Undefined]
BaseBody == GoodBody("club", <<"club", 1>>)
\* bodies that satisfy every constraint, some of them only just
ValidBodies ==
  { GoodBody(t, i) : t \in {"shop", "club"}, i \in ItemIds } \cup
  { [BaseBody EXCEPT !.itemName = Str(<<>>, 200)],
    [BaseBody EXCEPT !.submitterName = Str(<<"<">>, 199)],
    [BaseBody EXCEPT !.submitterEmail = Str(<<"a", "@", "b", ".">>, 251)],
    [BaseBody EXCEPT !.description = Str(<<>>, 2000)],
    [BaseBody EXCEPT !.description = Null],
    [BaseBody EXCEPT !.description = Str(<<>>, 0)] }
\* bodies that violate one constraint
InvalidBodies ==
  { [BaseBody EXCEPT !.object = FALSE],
    [BaseBody EXCEPT !.itemType = "event"],
    [BaseBody EXCEPT !.itemId = [Uuid(<<"club", 1>>) EXCEPT !.str = FALSE]],
    [BaseBody EXCEPT !.itemId = [Uuid(<<"club", 1>>) EXCEPT !.groups = <<8, 4, 4, 16>>]],
    [BaseBody EXCEPT !.itemId = [Uuid(<<"club", 1>>) EXCEPT !.hex = FALSE]],
    [BaseBody EXCEPT !.itemName = Str(<<>>, 201)],
    [BaseBody EXCEPT !.itemName = Str(<<>>, 0)],
    [BaseBody EXCEPT !.itemName = NotAString],
    [BaseBody EXCEPT !.submitterName = Str(<<>>, 201)],
    [BaseBody EXCEPT !.submitterName = Str(<<>>, 0)],
    [BaseBody EXCEPT !.submitterEmail = Str(<<"a", "@", "b", ".">>, 252)],
    [BaseBody EXCEPT !.submitterEmail = Str(<<"a", "b", ".", "c">>, 0)],
    [BaseBody EXCEPT !.submitterEmail = Str(<<"a", "@", "b">>, 1)],
    [BaseBody EXCEPT !.submitterEmail = Str(<<"a", " ", "@", "b", ".">>, 1)],
    [BaseBody EXCEPT !.submitterEmail = Str(<<"a", "@", "@", "b", ".">>, 1)],
    [BaseBody EXCEPT !.submitterEmail = NotAString],
    [BaseBody EXCEPT !.facultyEmail = Str(<<"a", "@", "b", ".">>, 252)],
    [BaseBody EXCEPT !.facultyEmail = Str(<<"@", "b", ".">>, 1)],
    [BaseBody EXCEPT !.description = Str(<<>>, 2001)],
    [BaseBody EXCEPT !.description = NotAString] }
IssuerBodies == { NotJson } \cup ValidBodies \cup InvalidBodies

\* the Authorization header: absent, or "Bearer " (or nothing) before a credential
AuthInputs ==
  { Null } \cup { [bearer |-> b, credential |-> c] :
                    b \in BOOLEAN, c \in {"", "credential of u1", "stale credential"} }
\* authHeader?.replace("Bearer ", "")
bearerToken(authHeader) == IF authHeader = Null THEN "" ELSE authHeader.credential
\* supabase.auth.getUser(token): user?.id || null
getUser(token) == IF token = "credential of u1" THEN "u1" ELSE ""
\* lines 118-126
userIdOf(authHeader) ==
  IF bearerToken(authHeader) # "" THEN getUser(bearerToken(authHeader)) ELSE ""

IdleIssuer ==
  [pc |-> "idle", itemType |-> "", itemId |-> <<>>, approvalToken |-> 0,
   userId |-> "",
   \* history of the request, for the properties: whether its body was one of
   \* InvalidBodies, the identity behind its credential, what it did
   invalid |-> FALSE, caller |-> "", inserted |-> FALSE, insertError |-> FALSE,
   updateCalled |-> FALSE, updateError |-> FALSE, updatedRow |-> FALSE,
   emailCalled |-> FALSE, emailOutcome |-> ""]
IssuerResponse(req, status, body) ==
  [type |-> "issuer", status |-> status, body |-> body, req |-> req,
   limiter |-> NoLimiter]

\* lines 88-133: req.json(), the validation, the token and the caller's identity
IssuerReceive(body, authHeader) ==
  /\ ireq.pc = "idle"
  /\ LET userId == userIdOf(authHeader)
         req == [IdleIssuer EXCEPT !.caller = userId,
                                   !.invalid = body \in InvalidBodies]
     IN
     IF body = NotJson
     THEN /\ ev' = IssuerResponse(req, 500,
                     "Failed to send approval email. Please try again.")
          /\ UNCHANGED <<ireq, nextToken>>
     ELSE IF ~validateApprovalEmailInput(body).valid
     THEN /\ ev' = IssuerResponse(req, 400, "Invalid request")
          /\ UNCHANGED <<ireq, nextToken>>
     ELSE IF userId = ""
     THEN /\ ev' = IssuerResponse(req, 401, "Unauthorized")
          /\ UNCHANGED <<ireq, nextToken>>
     ELSE /\ ev' = NoEvent
          /\ ireq' = [req EXCEPT !.pc = "insert", !.itemType = body.itemType,
                        !.itemId = body.itemId.id, !.approvalToken = nextToken,
                        !.userId = userId]
          \* the token drawn for a request that ends above is never seen again
          /\ nextToken' = nextToken + 1
  /\ UNCHANGED <<ar, objects, mail, now, rateLimiter, accepted, pending_approvals, clubs, shops, dreq, form>>

\* the row is stored without its token
ApprovalRowNoToken(item_type, item_id, submitted_by, approval_token) ==
  [item_type |-> item_type, item_id |-> item_id, submitted_by |-> submitted_by,
   approval_token |-> 0, status |-> "pending", created_at |-> now]

\* a row as pending_approvals stores it: status defaults to 'pending' and
\* created_at to the time of the insert
ApprovalRow(item_type, item_id, submitted_by, approval_token) ==
  [item_type |-> item_type, item_id |-> item_id, submitted_by |-> submitted_by,
   approval_token |-> approval_token, status |-> "pending", created_at |-> now]

\* the failed insert is logged and the request goes on
IssuerInsertGoesOn(fails) ==
  /\ ireq.pc = "insert"
  /\ pending_approvals' =
       IF fails THEN pending_approvals
       ELSE Append(pending_approvals,
              ApprovalRow(ireq.itemType, ireq.itemId, ireq.userId, ireq.approvalToken))
  /\ ev' = NoEvent
  /\ ireq' = [ireq EXCEPT !.pc = "update", !.inserted = ~fails, !.insertError = fails]
  /\ UNCHANGED <<ar, objects, mail, now, rateLimiter, accepted, clubs, shops, nextToken, dreq, form>>

\* lines 135-152: the insert of the pending approval
IssuerInsert(fails) ==
  /\ ireq.pc = "insert"
  /\ IF fails
     THEN /\ ev' = IssuerResponse([ireq EXCEPT !.insertError = TRUE], 500,
                     "Failed to process request. Please try again.")
          /\ ireq' = IdleIssuer
          /\ UNCHANGED pending_approvals
     ELSE /\ pending_approvals' = Append(pending_approvals,
               ApprovalRow(ireq.itemType, ireq.itemId, ireq.userId, ireq.approvalToken))
          /\ ev' = NoEvent
          /\ ireq' = [ireq EXCEPT !.pc = "update", !.inserted = TRUE]
  /\ UNCHANGED <<ar, objects, mail, now, rateLimiter, accepted, clubs, shops, nextToken, dreq, form>>

\* the failed update ends the request
IssuerUpdateAborts(fails) ==
  /\ ireq.pc = "update"
  /\ LET name == tableName(ireq.itemType)
         withToken == UpdateRow(name, ireq.itemId, "approval_token", ireq.approvalToken)
         table == IF HasRow(name, ireq.itemId)
                  THEN [withToken EXCEPT ![ireq.itemId].submitted_by = ireq.userId]
                  ELSE withToken
     IN
     /\ shops' = IF name = "shops" /\ ~fails THEN table ELSE shops
     /\ clubs' = IF name = "clubs" /\ ~fails THEN table ELSE clubs
  /\ IF fails
     THEN /\ ireq' = IdleIssuer
          /\ ev' = IssuerResponse([ireq EXCEPT !.updateCalled = TRUE,
                                               !.updateError = TRUE], 500,
                      "Failed to process request. Please try again.")
     ELSE /\ ireq' = [ireq EXCEPT !.pc = "email", !.updateCalled = TRUE,
                                  !.updatedRow = HasRow(tableName(ireq.itemType),
                                                        ireq.itemId)]
          /\ ev' = NoEvent
  /\ UNCHANGED <<ar, objects, mail, now, rateLimiter, accepted, pending_approvals, nextToken, dreq, form>>

\* lines 154-163: the item gets the token and the submitter; an error is logged
IssuerUpdate(fails) ==
  /\ ireq.pc = "update"
  /\ LET name == tableName(ireq.itemType)
         withToken == UpdateRow(name, ireq.itemId, "approval_token", ireq.approvalToken)
         table == IF HasRow(name, ireq.itemId)
                  THEN [withToken EXCEPT ![ireq.itemId].submitted_by = ireq.userId]
                  ELSE withToken
     IN
     /\ shops' = IF name = "shops" /\ ~fails THEN table ELSE shops
     /\ clubs' = IF name = "clubs" /\ ~fails THEN table ELSE clubs
  /\ ireq' = [ireq EXCEPT !.pc = "email", !.updateCalled = TRUE, !.updateError = fails,
                          !.updatedRow = ~fails /\ HasRow(tableName(ireq.itemType),
                                                          ireq.itemId)]
  /\ ev' = NoEvent
  /\ UNCHANGED <<ar, objects, mail, now, rateLimiter, accepted, pending_approvals, nextToken, dreq, form>>

EmailOutcomes == { "delivered", "refused", "throws" }
\* lines 165-243: the e-mail is posted to the provider, whose answer is read
\* and not looked at; a call that throws ends in the catch block
IssuerEmail(outcome) ==
  /\ ireq.pc = "email"
  /\ LET req == [ireq EXCEPT !.emailCalled = TRUE, !.emailOutcome = outcome] IN
     ev' = IF outcome = "throws"
           THEN IssuerResponse(req, 500,
                  "Failed to send approval email. Please try again.")
           ELSE IssuerResponse(req, 200, "success")
  /\ ireq' = IdleIssuer
  /\ UNCHANGED <<ar, objects, mail, now, rateLimiter, accepted, pending_approvals, clubs, shops,
                 nextToken, dreq, form>>

(* ----------------------- club submission form ------------------------ *)
IdleForm == [pc |-> "idle", approvalToken |-> 0, club |-> <<>>]
FreeIds(name, ids) == { i \in ids : ~HasRow(name, i) }
FirstFree(name, ids) ==
  CHOOSE i \in FreeIds(name, ids) : \A j \in FreeIds(name, ids) : i[2] <= j[2]
EntityRow(status, approval_token, submitted_by) ==
  [exists |-> TRUE, status |-> status, approval_token |-> approval_token,
   submitted_by |-> submitted_by]

\* handleSubmit, lines 66-87: the club is inserted as pending, with a new token
FormInsertClub(fails) ==
  /\ form.pc = "idle"
  /\ FreeIds("clubs", ClubIds) # {}
  /\ IF fails
     THEN /\ ev' = [type |-> "form", shown |-> FALSE, approvalToken |-> 0]
          /\ UNCHANGED <<clubs, form, nextToken>>
     ELSE LET id == FirstFree("clubs", ClubIds) IN
          /\ clubs' = [clubs EXCEPT ![id] = EntityRow("pending", nextToken, "u1")]
          /\ form' = [pc |-> "insertApproval", approvalToken |-> nextToken, club |-> id]
          /\ nextToken' = nextToken + 1
          /\ ev' = NoEvent
  /\ UNCHANGED <<ar, objects, mail, now, rateLimiter, accepted, pending_approvals, shops, dreq, ireq>>

\* handleSubmit, lines 89-106: the pending approval is inserted, the result of
\* the insert is not looked at, and the links are shown
FormInsertApproval(fails) ==
  /\ form.pc = "insertApproval"
  /\ pending_approvals' =
       IF fails THEN pending_approvals
       ELSE Append(pending_approvals,
                   ApprovalRow("club", form.club, "u1", form.approvalToken))
  /\ ev' = [type |-> "form", shown |-> TRUE, approvalToken |-> form.approvalToken]
  /\ form' = IdleForm
  /\ UNCHANGED <<ar, objects, mail, now, rateLimiter, accepted, clubs, shops, nextToken, dreq, ireq>>

\* the administrators' club page, handleSubmit lines 62-77: the club is
\* inserted as approved, with no token
AddClub(fails) ==
  /\ FreeIds("clubs", ClubIds) # {}
  /\ clubs' = IF fails THEN clubs
              ELSE [clubs EXCEPT ![FirstFree("clubs", ClubIds)] =
                      EntityRow("approved", 0, "u1")]
  /\ ev' = [type |-> "addClub", failed |-> fails]
  /\ UNCHANGED <<ar, objects, mail, now, rateLimiter, accepted, pending_approvals, shops, nextToken,
                 dreq, ireq, form>>

\* a shop is submitted: a shops row with status pending, which the issuer is
\* then called for
SubmitShop ==
  /\ FreeIds("shops", ShopIds) # {}
  /\ shops' = [shops EXCEPT ![FirstFree("shops", ShopIds)] =
                 EntityRow("pending", 0, "u1")]
  /\ ev' = NoEvent
  /\ UNCHANGED <<ar, objects, mail, now, rateLimiter, accepted, pending_approvals, clubs, nextToken,
                 dreq, ireq, form>>

(* ------------------------------ AR view ------------------------------ *)
\* the view before it is opened: no stream in its state, no effect run, no
\* camera track live and no deviceorientation listener registered
Closed ==
  [mounted |-> FALSE, opened |-> FALSE, stream |-> 0, effects |-> <<>>,
   tracks |-> {}, listeners |-> {}, userLocation |-> Null, deviceOrientation |-> 0]

\* the props: userLocation is a pair of coordinates in degrees, or null
UserLocations == { Null, [lat |-> 0, lon |-> 0], [lat |-> 90, lon |-> 0] }

\* lines 99-115: the effect runs with the stream of this render in its
\* closure, and init() calls getUserMedia
RunEffect(a) ==
  [a EXCEPT !.effects = Append(@, [stream |-> a.stream, pc |-> "camera",
                                   cleaned |-> FALSE])]
\* lines 117-122: the cleanup of the last effect run removes its own handler
\* and stops the tracks of the stream in its closure
Cleanup(a) ==
  LET e == Len(a.effects) IN
  [a EXCEPT !.listeners = @ \ {e},
            !.tracks = @ \ {a.effects[e].stream},
            !.effects[e].cleaned = TRUE]

\* the view is opened: first render and first run of the effect
Mount(loc) ==
  /\ ~ar.opened
  /\ ar' = RunEffect([Closed EXCEPT !.mounted = TRUE, !.opened = TRUE,
                                    !.userLocation = loc])
  /\ ev' = NoEvent
  /\ UNCHANGED <<now, rateLimiter, accepted, pending_approvals, clubs, shops,
                 nextToken, dreq, ireq, form, objects, mail>>

\* startCamera, lines 66-81: getUserMedia of the effect run e settles; a
\* stream granted is live and goes into the state (of a mounted view)
CameraSettles(e, granted) ==
  /\ e \in 1..Len(ar.effects)
  /\ ar.effects[e].pc = "camera"
  /\ ar' = [ar EXCEPT !.effects[e].pc = "permission",
                      !.tracks = IF granted THEN @ \cup {e} ELSE @,
                      !.stream = IF granted /\ ar.mounted THEN e ELSE @]
  /\ ev' = NoEvent
  /\ UNCHANGED <<now, rateLimiter, accepted, pending_approvals, clubs, shops,
                 nextToken, dreq, ireq, form, objects, mail>>

\* lines 109-112: requestOrientationPermission of the effect run e settles,
\* and its handler is registered when the permission is there
PermissionSettles(e, granted) ==
  /\ e \in 1..Len(ar.effects)
  /\ ar.effects[e].pc = "permission"
  /\ ar' = [ar EXCEPT !.effects[e].pc = "done",
                      !.listeners = IF granted THEN @ \cup {e} ELSE @]
  /\ ev' = NoEvent
  /\ UNCHANGED <<now, rateLimiter, accepted, pending_approvals, clubs, shops,
                 nextToken, dreq, ireq, form, objects, mail>>

\* line 123: the stream in the state is no longer the one of the last run of
\* the effect; the view renders again, cleans that run up and runs the effect
Render ==
  /\ ar.mounted
  /\ Len(ar.effects) < MaxEffects
  /\ ar.stream # ar.effects[Len(ar.effects)].stream
  /\ ar' = RunEffect(Cleanup(ar))
  /\ ev' = NoEvent
  /\ UNCHANGED <<now, rateLimiter, accepted, pending_approvals, clubs, shops,
                 nextToken, dreq, ireq, form, objects, mail>>

\* the view is dismissed: the cleanup of the last run of the effect
Unmount ==
  /\ ar.mounted
  /\ ar' = [Cleanup(ar) EXCEPT !.mounted = FALSE]
  /\ ev' = NoEvent
  /\ UNCHANGED <<now, rateLimiter, accepted, pending_approvals, clubs, shops,
                 nextToken, dreq, ireq, form, objects, mail>>

(* Angles on the screen are counted in ten-thousandths of a degree; the   *)
(* coordinates are whole multiples of 90 degrees, where the sines and     *)
(* cosines of the code are whole numbers.                                 *)
Deg(d) == d * 10000
Abs(n) == IF n < 0 THEN -n ELSE n
\* the % of JavaScript: the remainder has the sign of the dividend
jsRem(a, b) == IF a >= 0 THEN a % b ELSE -((-a) % b)
\* Math.sin and Math.cos of a multiple of 90 degrees
sinDeg(d) == CASE d % 360 = 0 -> 0 [] d % 360 = 90 -> 1
               [] d % 360 = 180 -> 0 [] d % 360 = 270 -> -1
cosDeg(d) == sinDeg(d + 90)
\* Math.atan2(y, x) in degrees, for y and x in -1..1
atan2Deg(y, x) ==
  IF y = 0 THEN (IF x < 0 THEN 180 ELSE 0)
  ELSE IF y > 0 THEN (IF x > 0 THEN 45 ELSE IF x = 0 THEN 90 ELSE 135)
  ELSE (IF x > 0 THEN -45 ELSE IF x = 0 THEN -90 ELSE -135)

\* the last line of getBearing without the turn added
getBearingSigned(lat1, lon1, lat2, lon2) ==
  LET y == sinDeg(lon2 - lon1) * cosDeg(lat2)
      x == cosDeg(lat1) * sinDeg(lat2)
             - sinDeg(lat1) * cosDeg(lat2) * cosDeg(lon2 - lon1)
  IN jsRem(Deg(atan2Deg(y, x)), Deg(360))
\* getBearing, lines 47-57
getBearing(lat1, lon1, lat2, lon2) ==
  LET y == sinDeg(lon2 - lon1) * cosDeg(lat2)
      x == cosDeg(lat1) * sinDeg(lat2)
             - sinDeg(lat1) * cosDeg(lat2) * cosDeg(lon2 - lon1)
      theta == atan2Deg(y, x)
  IN jsRem(Deg(theta) + Deg(360), Deg(360))

\* getDistance, lines 32-44, in metres: twice the haversine a is a whole
\* number, and c is 0, 90 or 180 degrees
getDistance(lat1, lon1, lat2, lon2) ==
  LET twiceSinSqHalf(d) == 1 - cosDeg(d)
      twiceA == twiceSinSqHalf(lat2 - lat1)
                  + cosDeg(lat1) * cosDeg(lat2) * twiceSinSqHalf(lon2 - lon1)
  IN IF twiceA <= 0 THEN 0
     ELSE IF twiceA = 1 THEN 10007543
     ELSE 20015087

\* lines 133-135: the angle of the target off the heading of the device
relativeAngle(bearing, heading) ==
  LET r0 == bearing - heading
      r1 == IF r0 < -Deg(180) THEN r0 + Deg(360) ELSE r0
  IN IF r1 > Deg(180) THEN r1 - Deg(360) ELSE r1

\* what getMarkerPosition returns for an angle and a distance: x in
\* thirty-thousandths of a percent, y in percent, the distance in metres
MarkerAt(rel, distance) ==
  LET y0 == 30 + (distance * 40) \div 500
      y1 == IF y0 < 80 THEN y0 ELSE 80
  IN [x |-> Deg(150) + 2 * rel, y |-> IF y1 > 20 THEN y1 ELSE 20,
      distance |-> distance]
\* a marker only strictly inside the 60 degrees
getMarkerPositionInside(userLocation, deviceOrientation, location) ==
  IF userLocation = Null THEN Null
  ELSE LET bearing == getBearing(userLocation.lat, userLocation.lon,
                                 location.lat, location.lon)
           distance == getDistance(userLocation.lat, userLocation.lon,
                                   location.lat, location.lon)
           rel == relativeAngle(bearing, deviceOrientation)
       IN IF Abs(rel) >= Deg(60) THEN Null ELSE MarkerAt(rel, distance)
\* getMarkerPosition, lines 126-148
getMarkerPosition(userLocation, deviceOrientation, location) ==
  IF userLocation = Null THEN Null
  ELSE LET bearing == getBearing(userLocation.lat, userLocation.lon,
                                 location.lat, location.lon)
           distance == getDistance(userLocation.lat, userLocation.lon,
                                   location.lat, location.lon)
           rel == relativeAngle(bearing, deviceOrientation)
       IN IF Abs(rel) > Deg(60) THEN Null ELSE MarkerAt(rel, distance)

\* the headings event.alpha may carry, in [0, 360)
Headings ==
  { 0, Deg(30) - 1, Deg(30), Deg(60), Deg(60) + 1, Deg(90), Deg(180), Deg(300),
    Deg(360) - 1 }
\* the locations of the campus map handed to the view
Locations ==
  { [lat |-> la, lon |-> lo] : la \in {-90, 0, 90}, lo \in {-180, -90, 0, 90, 180} }

\* the deviceorientation events: alpha is a heading, or null
OrientationEvents ==
  { [alphaIsNull |-> FALSE, alpha |-> h] : h \in Headings } \cup
  { [alphaIsNull |-> TRUE, alpha |-> 0] }

\* handleOrientation, lines 100-105: a deviceorientation event reaches a
\* handler the view registered
OrientationEvent(event) ==
  /\ ar.mounted /\ ar.listeners # {}
  /\ ar' = IF event.alphaIsNull THEN ar
           ELSE [ar EXCEPT !.deviceOrientation = event.alpha]
  /\ ev' = NoEvent
  /\ UNCHANGED <<now, rateLimiter, accepted, pending_approvals, clubs, shops,
                 nextToken, dreq, ireq, form, objects, mail>>

\* a render places the marker of a location
PlaceMarker(location) ==
  /\ ar.mounted
  /\ ev' = [type |-> "marker", userLocation |-> ar.userLocation,
            heading |-> ar.deviceOrientation, location |-> location,
            bearing |-> IF ar.userLocation = Null THEN 0
                        ELSE getBearing(ar.userLocation.lat, ar.userLocation.lon,
                                        location.lat, location.lon),
            marker |-> getMarkerPosition(ar.userLocation, ar.deviceOrientation,
                                         location)]
  /\ UNCHANGED <<now, rateLimiter, accepted, pending_approvals, clubs, shops,
                 nextToken, dreq, ireq, form, ar, objects, mail>>

\* lines 132-147 for a target whose bearing and distance are known
positionOf(bearing, distance, deviceOrientation) ==
  LET rel == relativeAngle(bearing, deviceOrientation)
  IN IF Abs(rel) > Deg(60) THEN Null ELSE MarkerAt(rel, distance)

\* the scale without its lower bound
markerScaleUnbounded(distance) == 1000 - 2 * distance
\* line 200, in thousandths: Math.max(0.6, 1 - position.distance / 500)
markerScale(distance) ==
  IF 1000 - 2 * distance > 600 THEN 1000 - 2 * distance ELSE 600

\* lines 203-210: the style of the element of a marker
markerStyle(position) ==
  IF position = Null THEN Null
  ELSE [left |-> position.x, top |-> position.y,
        scale |-> markerScale(position.distance)]

\* the targets of a frame: what getBearing and getDistance give for them
Targets ==
  { [bearing |-> b, distance |-> d] :
      b \in {0, Deg(60), Deg(180)}, d \in {0, 100, 199, 200, 625, 1000} }

\* lines 195-230: a render with a known position draws the markers of two
\* of the locations it was handed
RenderFrame(t1, t2) ==
  /\ ar.mounted /\ ar.userLocation # Null
  /\ ev' = [type |-> "frame", heading |-> ar.deviceOrientation,
            targets |-> <<t1, t2>>,
            markers |-> << markerStyle(positionOf(t1.bearing, t1.distance,
                                                  ar.deviceOrientation)),
                           markerStyle(positionOf(t2.bearing, t2.distance,
                                                  ar.deviceOrientation)) >>]
  /\ UNCHANGED <<now, rateLimiter, accepted, pending_approvals, clubs, shops,
                 nextToken, dreq, ireq, form, ar, objects, mail>>

(* ------------------------------ storage ----------------------------- *)
(* The row-level policies on storage.objects.  A caller has a role and,  *)
(* when authenticated, an identity; an object has a bucket and a name,   *)
(* the path as the sequence of its segments.                             *)
Callers ==
  { [role |-> "anon", uid |-> ""],
    [role |-> "authenticated", uid |-> "u1"],
    [role |-> "authenticated", uid |-> "u2"] }
Buckets == { "app-images", "avatars" }
ObjectNames ==
  { <<"a.png">>, <<"u1">>, <<"u1", "a.png">>, <<"u2", "a.png">>,
    <<"u1", "clubs", "a.png">>, <<"shared", "u1", "a.png">> }

\* the whole path taken for its folders
foldernameWithFile(name) == name
\* storage.foldername(name): the segments of the path before the file name
foldername(name) == SubSeq(name, 1, Len(name) - 1)
\* auth.uid()::text = (storage.foldername(name))[1]; false on a null
OwnFolder(caller, name) ==
  /\ Len(foldername(name)) >= 1
  /\ caller.uid # ""
  /\ caller.uid = foldername(name)[1]

\* lines 3-9, 12-18, 21-27: the policies TO authenticated
WritePolicy(caller, bucket_id, name) ==
  /\ caller.role = "authenticated"
  /\ bucket_id = "app-images"
  /\ OwnFolder(caller, name)
\* lines 31-33: the policy FOR SELECT, to every role
SelectPolicy(caller, bucket_id, name) == bucket_id = "app-images"

StorageEvent(op, caller, bucket_id, name, newName, permitted) ==
  [type |-> "storage", op |-> op, caller |-> caller, bucket_id |-> bucket_id,
   name |-> name, newName |-> newName, permitted |-> permitted]

\* INSERT: the new row passes the WITH CHECK of the policy, or is refused
InsertObject(caller, bucket_id, name) ==
  /\ objects' = IF WritePolicy(caller, bucket_id, name)
                THEN objects \cup {[bucket_id |-> bucket_id, name |-> name]}
                ELSE objects
  /\ ev' = StorageEvent("insert", caller, bucket_id, name, name,
                        WritePolicy(caller, bucket_id, name))
  /\ UNCHANGED <<now, rateLimiter, accepted, pending_approvals, clubs, shops,
                 nextToken, dreq, ireq, form, ar, mail>>

\* UPDATE of the name: the row passes USING, and the row as updated passes
\* the same expression (there is no WITH CHECK of its own)
UpdateObject(caller, o, newName) ==
  /\ o \in objects
  /\ LET permitted == /\ SelectPolicy(caller, o.bucket_id, o.name)
                      /\ WritePolicy(caller, o.bucket_id, o.name)
                      /\ WritePolicy(caller, o.bucket_id, newName)
     IN
     /\ objects' = IF permitted
                   THEN (objects \ {o}) \cup {[o EXCEPT !.name = newName]}
                   ELSE objects
     /\ ev' = StorageEvent("update", caller, o.bucket_id, o.name, newName, permitted)
  /\ UNCHANGED <<now, rateLimiter, accepted, pending_approvals, clubs, shops,
                 nextToken, dreq, ireq, form, ar, mail>>

\* DELETE: the row passes USING
DeleteObject(caller, o) ==
  /\ o \in objects
  /\ LET permitted == /\ SelectPolicy(caller, o.bucket_id, o.name)
                      /\ WritePolicy(caller, o.bucket_id, o.name)
     IN
     /\ objects' = IF permitted THEN objects \ {o} ELSE objects
     /\ ev' = StorageEvent("delete", caller, o.bucket_id, o.name, o.name, permitted)
  /\ UNCHANGED <<now, rateLimiter, accepted, pending_approvals, clubs, shops,
                 nextToken, dreq, ireq, form, ar, mail>>

\* SELECT of an object there is
SelectObject(caller, o) ==
  /\ o \in objects
  /\ ev' = StorageEvent("select", caller, o.bucket_id, o.name, o.name,
                        SelectPolicy(caller, o.bucket_id, o.name))
  /\ UNCHANGED <<now, rateLimiter, accepted, pending_approvals, clubs, shops,
                 nextToken, dreq, ireq, form, ar, objects, mail>>

(* ------------------------------ e-mail ------------------------------- *)
NoMail == [composed |-> FALSE]

RECURSIVE ReplaceAll(_, _, _)
\* str.replace(/c/g, by) on the characters w
ReplaceAll(w, c, by) ==
  IF w = <<>> THEN <<>>
  ELSE (IF Head(w) = c THEN by ELSE <<Head(w)>>) \o ReplaceAll(Tail(w), c, by)

\* the apostrophe is left as it is
sanitizeForHtmlNoApostrophe(str) ==
  LET amp == ReplaceAll(str.chars, "&", <<"&", "a", "m", "p", ";">>)
      lt == ReplaceAll(amp, "<", <<"&", "l", "t", ";">>)
      gt == ReplaceAll(lt, ">", <<"&", "g", "t", ";">>)
      quot == ReplaceAll(gt, "\"", <<"&", "q", "u", "o", "t", ";">>)
  IN Str(quot, str.fill)
\* sanitizeForHtml, lines 78-86
sanitizeForHtml(str) ==
  LET amp == ReplaceAll(str.chars, "&", <<"&", "a", "m", "p", ";">>)
      lt == ReplaceAll(amp, "<", <<"&", "l", "t", ";">>)
      gt == ReplaceAll(lt, ">", <<"&", "g", "t", ";">>)
      quot == ReplaceAll(gt, "\"", <<"&", "q", "u", "o", "t", ";">>)
      apos == ReplaceAll(quot, "'", <<"&", "#", "x", "2", "7", ";">>)
  IN Str(apos, str.fill)

\* a piece of the subject or of the body: what it stands for and its text.
\* Markup of the template is one piece per tag; its characters are not
\* spelled out.
Part(part, text) == [part |-> part, text |-> text]
Markup(tag) == Part("markup", Str(<<tag>>, 0))
Link(part, baseUrl, approvalToken, action) ==
  [part |-> part, text |-> baseUrl, token |-> approvalToken, action |-> action]

DefaultBaseUrl == Str(<<"https://36014776-bc14-4ae2-985e-9ec7a851b4ba.lovableproject.com">>, 0)
\* lines 165-224: the e-mail posted to the provider for the body `data`
Email(data, origin, approvalToken) ==
  LET baseUrl == IF origin = Null \/ Length(origin) = 0 THEN DefaultBaseUrl ELSE origin
      kind == Str(<<IF data.itemType = "shop" THEN "Shop" ELSE "Club">>, 0)
      safeItemName == sanitizeForHtml(data.itemName)
      safeSubmitterName == sanitizeForHtml(data.submitterName)
      safeSubmitterEmail == sanitizeForHtml(data.submitterEmail)
      safeDescription ==
        IF data.description = Undefined \/ data.description = Null
           \/ Length(data.description) = 0
        THEN Str(<<>>, 0) ELSE sanitizeForHtml(data.description)
      approve == Link("approveUrl", baseUrl, approvalToken, "approve")
      reject == Link("rejectUrl", baseUrl, approvalToken, "reject")
  IN [composed |-> TRUE, data |-> data,
      to |-> <<data.facultyEmail>>,
      subject |-> << Part("text", Str(<<"Approval Request: New ">>, 0)),
                     Part("kind", kind), Part("text", Str(<<" - ">>, 0)),
                     Part("itemName", safeItemName) >>,
      html |-> << Markup("<div>"), Markup("<h1>"), Part("kind", kind), Markup("</h1>"),
                  Markup("<p>"), Part("itemType", Str(<<data.itemType>>, 0)),
                  Markup("</p>"), Markup("<div>"),
                  Markup("<h2>"), Part("itemName", safeItemName), Markup("</h2>"),
                  Markup("<p>"), Part("submitterName", safeSubmitterName),
                  Part("submitterEmail", safeSubmitterEmail), Markup("</p>") >>
                \o (IF Length(safeDescription) # 0
                    THEN << Markup("<p>"), Part("description", safeDescription),
                            Markup("</p>") >>
                    ELSE << >>)
                \o << Markup("</div>"), Markup("<a>"), approve, Markup("</a>"),
                       Markup("<a>"), reject, Markup("</a>"),
                       Markup("<p>"), approve, reject, Markup("</p>"),
                       Markup("</div>") >>]

\* texts a submitter may type, with the characters HTML gives a meaning to
Texts ==
  { Str(<<"R">>, 12), Str(<<"<", "s", ">">>, 0), Str(<<"&", "l", "t", ";">>, 0),
    Str(<<"\"", "'">>, 2), Str(<<"&">>, 0) }
Origins == { Null, Str(<<"https://portal.example">>, 0), Str(<<"\"", ">">>, 4) }
EmailBodies ==
  { [object |-> TRUE, itemType |-> t, itemId |-> Uuid(<<"club", 1>>),
     itemName |-> n, submitterName |-> sn, submitterEmail |-> se,
     facultyEmail |-> GoodEmail, description |-> d] :
      t \in {"shop", "club"}, n \in Texts, sn \in Texts,
      se \in { GoodEmail, Str(<<"<", "'", ">", "@", "b", ".", "c">>, 0) },
      d \in { Undefined, Null, Str(<<>>, 0), Str(<<"<", "&", ">">>, 5) } }

\* the issuer composes the e-mail for a body that passed the validation
ComposeEmail(data, origin, approvalToken) ==
  /\ validateApprovalEmailInput(data).valid
  /\ mail' = Email(data, origin, approvalToken)
  /\ ev' = NoEvent
  /\ UNCHANGED <<now, rateLimiter, accepted, pending_approvals, clubs, shops,
                 nextToken, dreq, ireq, form, ar, objects>>

(* ------------------------------- clock ------------------------------- *)
\* the clock moves on; the history forgets what has left every window for good
Tick(d) ==
  /\ now' = now + d
  /\ accepted' = [k \in Keys |->
                    LET InWindow(t) == now + d - t < RateWindowSecs
                    IN SelectSeq(accepted[k], InWindow)]
  /\ ev' = NoEvent
  /\ UNCHANGED <<ar, objects, mail, rateLimiter, pending_approvals, clubs, shops, nextToken,
                 dreq, ireq, form>>

(* --------------------------- specifications -------------------------- *)
Init ==
  /\ now = 0
  /\ rateLimiter = [k \in Keys |-> <<>>]
  /\ accepted = [k \in Keys |-> <<>>]
  /\ pending_approvals = <<>>
  /\ clubs = [i \in ClubIds |-> NoRow]
  /\ shops = [i \in ShopIds |-> NoRow]
  /\ nextToken = 1
  /\ dreq = [s \in Slots |-> IdleReq]
  /\ ireq = IdleIssuer
  /\ form = IdleForm
  /\ ar = Closed
  /\ objects = {}
  /\ mail = NoMail
  /\ ev = NoEvent

RECURSIVE SumLen(_, _)
SumLen(f, ks) ==
  IF ks = {} THEN 0
  ELSE LET k == CHOOSE x \in ks : TRUE IN Len(f[k]) + SumLen(f, ks \ {k})
InWindowNow == SumLen(accepted, Keys)
RoomForRow == Len(pending_approvals) < MaxRows /\ nextToken <= MaxRows

\* The approval workflow: submissions, the issuer and the decision processor
\* side by side, with the requests a reviewer's links make (and two malformed
\* ones).
WorkflowBodies ==
  { NotJson, [json |-> TRUE, token |-> Uuid(NoToken), action |-> "delete"] } \cup
  { [json |-> TRUE, token |-> Uuid(t), action |-> a] :
      t \in TokenIds \cup {NoToken}, a \in {"approve", "reject"} }
WorkflowIssuerBodies ==
  { GoodBody("club", <<"club", 1>>), GoodBody("shop", <<"shop", 1>>),
    [BaseBody EXCEPT !.itemName = Str(<<>>, 201)] }
WorkflowAuth == { Null, [bearer |-> TRUE, credential |-> "credential of u1"] }
WorkflowHeaders == { NoHeader }
\* the clock jumps the 30 days of the expiry, and then goes on by days
WorkflowStep == IF now < ExpirySecs THEN ExpirySecs ELSE DaySecs
InFlight == Cardinality({ s \in Slots : dreq[s].pc # "idle" })
\* no submission is under way
Quiet == ireq.pc = "idle" /\ form.pc = "idle"

\* Submissions and decisions take turns, one decision request at a time, with
\* up to MaxRows tokens issued.
Next ==
  \/ \E h \in WorkflowHeaders, b \in WorkflowBodies :
       Quiet /\ InFlight < 1 /\ InWindowNow < MaxDecisions /\ Receive(h, b)
  \/ \E s \in Slots, fails \in BOOLEAN : Find(s, fails)
  \/ \E s \in Slots, fails \in BOOLEAN : UpdateApproval(s, fails)
  \/ \E s \in Slots, fails \in BOOLEAN : UpdateItem(s, fails)
  \/ \E b \in WorkflowIssuerBodies, a \in WorkflowAuth :
       Quiet /\ InFlight = 0 /\ RoomForRow /\ IssuerReceive(b, a)
  \/ \E fails \in BOOLEAN : IssuerInsert(fails)
  \/ \E fails \in BOOLEAN : IssuerUpdate(fails)
  \/ \E o \in EmailOutcomes : IssuerEmail(o)
  \/ \E fails \in BOOLEAN : Quiet /\ InFlight = 0 /\ RoomForRow /\ FormInsertClub(fails)
  \/ \E fails \in BOOLEAN : FormInsertApproval(fails)
  \/ \E fails \in BOOLEAN : Quiet /\ InFlight = 0 /\ AddClub(fails)
  \/ Quiet /\ InFlight = 0 /\ SubmitShop
  \/ now + WorkflowStep <= ExpirySecs + MaxDays * DaySecs /\ Tick(WorkflowStep)

Spec == Init /\ [][Next]_vars

\* Decision requests race: up to MaxInFlight of them in flight, on the one
\* token issued (by the form for a club, or by the issuer for a club or a shop).
OneRow == Len(pending_approvals) < 1 /\ nextToken <= 1
NextRace ==
  \/ \E h \in WorkflowHeaders, b \in WorkflowBodies :
       Quiet /\ InWindowNow < MaxDecisions /\ Receive(h, b)
  \/ \E s \in Slots, fails \in BOOLEAN : Find(s, fails)
  \/ \E s \in Slots, fails \in BOOLEAN : UpdateApproval(s, fails)
  \/ \E s \in Slots, fails \in BOOLEAN : UpdateItem(s, fails)
  \/ \E b \in WorkflowIssuerBodies, a \in WorkflowAuth :
       Quiet /\ InFlight = 0 /\ OneRow /\ IssuerReceive(b, a)
  \/ \E fails \in BOOLEAN : IssuerInsert(fails)
  \/ \E fails \in BOOLEAN : IssuerUpdate(fails)
  \/ \E o \in EmailOutcomes : IssuerEmail(o)
  \/ \E fails \in BOOLEAN : Quiet /\ InFlight = 0 /\ OneRow /\ FormInsertClub(fails)
  \/ \E fails \in BOOLEAN : FormInsertApproval(fails)
  \/ Quiet /\ InFlight = 0 /\ SubmitShop
  \/ now + WorkflowStep <= ExpirySecs + MaxDays * DaySecs /\ Tick(WorkflowStep)

SpecRace == Init /\ [][NextRace]_vars

\* The issuer alone, with every body and every Authorization header.
NextIssuer ==
  \/ \E b \in IssuerBodies, a \in AuthInputs : RoomForRow /\ IssuerReceive(b, a)
  \/ \E fails \in BOOLEAN : IssuerInsert(fails)
  \/ \E fails \in BOOLEAN : IssuerUpdate(fails)
  \/ \E o \in EmailOutcomes : IssuerEmail(o)
  \/ \E fails \in BOOLEAN : RoomForRow /\ FormInsertClub(fails)
  \/ \E fails \in BOOLEAN : FormInsertApproval(fails)
  \/ \E fails \in BOOLEAN : AddClub(fails)
  \/ SubmitShop
  \/ now + WorkflowStep <= ExpirySecs + MaxDays * DaySecs /\ Tick(WorkflowStep)

SpecIssuer == Init /\ [][NextIssuer]_vars

\* The rate limiter: decision requests with every header, one at a time, on a
\* clock that steps by TickSecs; the form issues one token.  The key "a" sends
\* up to MaxOtherKey requests per window, the key 'unknown' as many as it likes.
LimiterBodies ==
  { NotJson, [json |-> TRUE, token |-> Uuid(NoToken), action |-> "delete"],
    [json |-> TRUE, token |-> Uuid(NoToken), action |-> "approve"],
    [json |-> TRUE, token |-> Uuid(1), action |-> "approve"],
    [json |-> TRUE, token |-> Uuid(1), action |-> "reject"] }
NextRL ==
  \/ \E h \in HeaderInputs, b \in LimiterBodies :
       /\ InFlight < 1
       /\ clientIp(h) # Unknown => Len(accepted[clientIp(h)]) < MaxOtherKey
       /\ Receive(h, b)
  \/ \E s \in Slots, fails \in BOOLEAN : Find(s, fails)
  \/ \E s \in Slots, fails \in BOOLEAN : UpdateApproval(s, fails)
  \/ \E s \in Slots, fails \in BOOLEAN : UpdateItem(s, fails)
  \/ \E fails \in BOOLEAN : InFlight = 0 /\ now = 0 /\ OneRow /\ FormInsertClub(fails)
  \/ \E fails \in BOOLEAN : FormInsertApproval(fails)
  \/ now + TickSecs <= MaxTicks * TickSecs /\ Tick(TickSecs)

SpecRL == Init /\ [][NextRL]_vars

\* The validation of the decision processor: every body, one request at a
\* time from the one key, on the one token the form issues.
NextValidation ==
  \/ \E h \in WorkflowHeaders, b \in DecisionBodies : InFlight < 1 /\ Receive(h, b)
  \/ \E s \in Slots, fails \in BOOLEAN : Find(s, fails)
  \/ \E s \in Slots, fails \in BOOLEAN : UpdateApproval(s, fails)
  \/ \E s \in Slots, fails \in BOOLEAN : UpdateItem(s, fails)
  \/ \E fails \in BOOLEAN : InFlight = 0 /\ OneRow /\ FormInsertClub(fails)
  \/ \E fails \in BOOLEAN : FormInsertApproval(fails)

SpecValidation == Init /\ [][NextValidation]_vars

\* The AR view from its opening to after its dismissal, with the camera and
\* permission requests settling at any time.
NextAR ==
  \/ \E loc \in UserLocations : Mount(loc)
  \/ \E e \in 1..MaxEffects, granted \in BOOLEAN : CameraSettles(e, granted)
  \/ \E e \in 1..MaxEffects, granted \in BOOLEAN : PermissionSettles(e, granted)
  \/ Render
  \/ Unmount

SpecAR == Init /\ [][NextAR]_vars

\* The markers of the AR view: the view lives through its effects while
\* orientation events come in and markers are placed.
NextMarker ==
  \/ \E loc \in UserLocations : Mount(loc)
  \/ \E e \in 1..MaxEffects, granted \in BOOLEAN : CameraSettles(e, granted)
  \/ \E e \in 1..MaxEffects, granted \in BOOLEAN : PermissionSettles(e, granted)
  \/ Render
  \/ Unmount
  \/ \E event \in OrientationEvents : OrientationEvent(event)
  \/ \E l \in Locations : PlaceMarker(l)

SpecMarker == Init /\ [][NextMarker]_vars

\* The storage bucket: every caller tries every operation on every path.
NextStorage ==
  \/ \E c \in Callers, b \in Buckets, n \in ObjectNames : InsertObject(c, b, n)
  \/ \E c \in Callers, o \in objects, n \in ObjectNames : UpdateObject(c, o, n)
  \/ \E c \in Callers, o \in objects : DeleteObject(c, o)
  \/ \E c \in Callers, o \in objects : SelectObject(c, o)

SpecStorage == Init /\ [][NextStorage]_vars

\* The e-mail of the issuer, for a body that carries markup in its texts.
NextEmail ==
  \E data \in EmailBodies, origin \in Origins, t \in TokenIds :
    ~mail.composed /\ ComposeEmail(data, origin, t)

SpecEmail == Init /\ [][NextEmail]_vars

\* The frames of the AR view: the view is opened, the compass turns, and a
\* render draws two targets.
NextFrame ==
  \/ \E loc \in UserLocations : Mount(loc)
  \/ \E e \in 1..MaxEffects, granted \in BOOLEAN : CameraSettles(e, granted)
  \/ \E e \in 1..MaxEffects, granted \in BOOLEAN : PermissionSettles(e, granted)
  \/ \E event \in OrientationEvents : OrientationEvent(event)
  \/ \E t1, t2 \in Targets : RenderFrame(t1, t2)

SpecFrame == Init /\ [][NextFrame]_vars

\* A burst of malformed requests: the requests without the header are
\* malformed, but for well-formed ones sent once ten requests of the window
\* are on record; the key "a" sends requests of every kind, up to MaxOtherKey
\* per window; the form issues one token.
NextBurst ==
  \/ \E b \in DecisionBodies \ WellFormedBodies : InFlight < 1 /\ Receive(NoHeader, b)
  \/ \E b \in WellFormedBodies :
       /\ InFlight < 1
       /\ Len(recentRequests(Unknown)) = MAX_REQUESTS_PER_WINDOW
       /\ Receive(NoHeader, b)
  \/ \E b \in LimiterBodies :
       /\ InFlight < 1
       /\ Len(accepted[<<"a">>]) < MaxOtherKey
       /\ Receive(Header(<< <<"a">> >>), b)
  \/ \E s \in Slots, fails \in BOOLEAN : Find(s, fails)
  \/ \E s \in Slots, fails \in BOOLEAN : UpdateApproval(s, fails)
  \/ \E s \in Slots, fails \in BOOLEAN : UpdateItem(s, fails)
  \/ \E fails \in BOOLEAN : InFlight = 0 /\ now = 0 /\ OneRow /\ FormInsertClub(fails)
  \/ \E fails \in BOOLEAN : FormInsertApproval(fails)
  \/ now + TickSecs <= MaxTicks * TickSecs /\ Tick(TickSecs)

SpecBurst == Init /\ [][NextBurst]_vars

(* ------------------------------ properties --------------------------- *)
Decided(name, id) == HasRow(name, id) /\ Table(name)[id].status # "pending"

C2_StatusWrittenOnce ==
  [][\A i \in 1..Len(pending_approvals) :
       pending_approvals[i].status # "pending" =>
         pending_approvals'[i].status = pending_approvals[i].status]_vars

\* C3: a request whose lookup meets a token that is absent, a row already
\* decided, or a pending row older than 30 days is answered the same in all
\* three cases (400 NotFoundOrExpired; 500 ProcessingFailed when the lookup
\* itself fails), and writes nothing.
C3_SameAnswerInThreeCases ==
  (ev.type = "decision" /\ ev.req.looked
     /\ ev.req.case \in {"absent", "decided", "expired"}) =>
     /\ ev.status = (IF ev.req.findError THEN 500 ELSE 400)
     /\ ev.body = (IF ev.req.findError THEN ProcessingFailed ELSE NotFoundOrExpired)
     /\ ~ev.req.wroteApproval /\ ~ev.req.wroteItem

\* a pending row created 31 days ago is looked up
C3_Witness ==
  /\ ev.type = "decision" /\ ev.req.looked /\ ev.req.case = "expired"
  /\ ev.status = 400 /\ ev.body = NotFoundOrExpired
  /\ \E i \in RowsWithToken(ev.req.token) :
       /\ pending_approvals[i].status = "pending"
       /\ now - pending_approvals[i].created_at = 31 * DaySecs

\* C4: when a decision request is answered 200, the row of its token and the
\* item the row names both have the status of its action, and the message
\* names the kind of item and that status.
C4_SuccessMeansBothDecided ==
  (ev.type = "decision" /\ ev.status = 200) =>
     /\ pending_approvals[ev.req.approval].status = newStatus(ev.req.action)
     /\ HasRow(tableName(ev.req.item_type), ev.req.item_id) =>
          Table(tableName(ev.req.item_type))[ev.req.item_id].status
            = newStatus(ev.req.action)
     /\ ev.body = <<IF ev.req.item_type = "shop" THEN "Shop" ELSE "Club",
                    " has been ",
                    IF ev.req.action = "approve" THEN "approved" ELSE "rejected">>

RecentIn(history) ==
  Cardinality({ i \in 1..Len(history) : now - history[i] < RateWindowSecs })

C6_RejectedChangesNothing ==
  [][(ev'.type = "decision" /\ ev'.limiter.called /\ ~ev'.limiter.allowed) =>
       /\ ev'.status = 429 /\ ev'.body = TooManyRequests
       /\ ~ev'.req.looked
       /\ UNCHANGED <<rateLimiter, pending_approvals, clubs, shops, dreq>>]_vars

C6_Witness ==
  /\ ev.type = "decision" /\ ev.status = 429 /\ ~ev.limiter.allowed
  /\ Len(rateLimiter[ev.limiter.key]) = 10
  /\ Len(pending_approvals) = 1

\* C7: an issuer request whose body violates an input constraint is answered
\* 400 {error: 'Invalid request'}; nothing is inserted, no item is updated and
\* no e-mail is posted.
C7_InvalidBodyIsRefused ==
  /\ ireq.invalid => ireq.pc = "idle"
  /\ (ev.type = "issuer" /\ ev.req.invalid) =>
       /\ ev.status = 400 /\ ev.body = "Invalid request"
       /\ ~ev.req.inserted /\ ~ev.req.updateCalled /\ ~ev.req.emailCalled

C7_Witness ==
  /\ ev.type = "issuer" /\ ev.req.invalid /\ ev.req.caller = "u1"
  /\ ev.status = 400 /\ ev.body = "Invalid request"

\* C8: an issuer request behind which no caller identity is resolved is
\* answered 401 {error: 'Unauthorized'}, whatever its body.
C8_NoIdentityIsUnauthorized ==
  (ev.type = "issuer" /\ ev.req.caller = "") =>
     (ev.status = 401 /\ ev.body = "Unauthorized")

\* C9: when the insert of the pending approval fails, the request is answered
\* 500, and neither the item is updated nor the e-mail posted.
C9_InsertFailureAborts ==
  /\ ireq.insertError => ireq.pc = "idle"
  /\ (ev.type = "issuer" /\ ev.req.insertError) =>
       /\ ev.status = 500
       /\ ~ev.req.inserted /\ ~ev.req.updateCalled /\ ~ev.req.emailCalled
       /\ RowsWithToken(ev.req.approvalToken) = {}
       /\ \A i \in ItemIds, name \in {"clubs", "shops"} :
            HasRow(name, i) => Table(name)[i].approval_token # ev.req.approvalToken

C9_Witness ==
  /\ ev.type = "issuer" /\ ev.req.insertError /\ ev.status = 500
  /\ HasRow(tableName(ev.req.itemType), ev.req.itemId)

\* C10, as claimed: when the update of the item fails after the insert, the
\* row inserted is kept, the e-mail is posted and the answer is 200.
C10_UpdateFailureStillSucceeds ==
  (ev.type = "issuer" /\ ev.req.updateError) =>
     /\ RowsWithToken(ev.req.approvalToken) # {}
     /\ ev.req.emailCalled
     /\ ev.status = 200 /\ ev.body = "success"

\* C10, amended: the row inserted is kept, the provider is still called with
\* the e-mail, and the answer is 200 {success: true} unless that call throws
\* (then it is 500).
C10_UpdateFailureGoesOn ==
  /\ ireq.updateError => (ireq.pc = "email" /\ RowsWithToken(ireq.approvalToken) # {})
  /\ (ev.type = "issuer" /\ ev.req.updateError) =>
       /\ \E i \in RowsWithToken(ev.req.approvalToken) :
            pending_approvals[i].status = "pending"
       /\ ev.req.inserted /\ ev.req.emailCalled
       /\ ev.req.emailOutcome # "throws" => (ev.status = 200 /\ ev.body = "success")
       /\ ev.req.emailOutcome = "throws" => ev.status = 500

C10_Witness ==
  /\ ev.type = "issuer" /\ ev.req.updateError /\ ev.req.emailOutcome = "delivered"
  /\ ev.status = 200
  /\ \E i \in RowsWithToken(ev.req.approvalToken) :
       /\ pending_approvals[i].status = "pending"
       /\ HasRow(tableName(ev.req.itemType), ev.req.itemId)
       /\ Table(tableName(ev.req.itemType))[ev.req.itemId].approval_token
            # ev.req.approvalToken

C12_EmailFailureIsReported ==
  (ev.type = "issuer" /\ ev.req.emailCalled
     /\ ev.req.emailOutcome \in {"refused", "throws"}) =>
       (ev.status = 500 /\ ev.body # "success")

\* C13: in the decision processor, when the write of the approval's status
\* fails, the request is answered 500, no table is written (the approval and
\* the item keep the status they had) and the request ends there.
C13_ApprovalWriteFailureAborts ==
  [][/\ \A s \in Slots : ~dreq'[s].approvalError
     /\ (ev'.type = "decision" /\ ev'.req.approvalError) =>
          /\ ev'.status = 500
          /\ ~ev'.req.wroteApproval /\ ~ev'.req.wroteItem
          /\ UNCHANGED <<pending_approvals, clubs, shops>>]_vars

C13_Witness ==
  /\ ev.type = "decision" /\ ev.req.approvalError /\ ev.status = 500
  /\ pending_approvals[ev.req.approval].status = "pending"
  /\ HasRow(tableName(ev.req.item_type), ev.req.item_id)
  /\ Table(tableName(ev.req.item_type))[ev.req.item_id].status = "pending"

\* the approval i is decided, its item is not in the status decided, and no
\* request that found the approval pending is still under way
Stuck(i) ==
  /\ pending_approvals[i].status # "pending"
  /\ HasRow(tableName(pending_approvals[i].item_type), pending_approvals[i].item_id)
  /\ Table(tableName(pending_approvals[i].item_type))[pending_approvals[i].item_id].status
       # pending_approvals[i].status
  /\ \A s \in Slots :
       dreq[s].pc \in {"updateApproval", "updateItem"} => dreq[s].approval # i

\* C14, as claimed: after a decision whose write of the item failed, every
\* later request with that token is answered NotFoundOrExpired.
C14_RetryGetsNotFound ==
  (ev.type = "decision" /\ ev.req.late
     /\ \E i \in RowsWithToken(ev.req.token) : Stuck(i)) =>
       (ev.status = 400 /\ ev.body = NotFoundOrExpired)

\* C14, amended: when the write of the approval succeeds and the write of the
\* item fails, the request is answered 500 and leaves the approval decided and
\* the item as it was; the mismatch then stays for good, and a later request
\* with that token writes nothing and is answered NotFoundOrExpired whenever
\* its lookup is made and does not fail.
C14_MismatchIsNeverRepaired ==
  [][/\ (ev'.type = "decision" /\ ev'.req.itemError) =>
          /\ ev'.status = 500 /\ ev'.req.wroteApproval
          /\ pending_approvals'[ev'.req.approval].status # "pending"
          /\ UNCHANGED <<pending_approvals, clubs, shops>>
     /\ \A i \in 1..Len(pending_approvals) :
          Stuck(i) =>
            /\ Stuck(i)'
            /\ pending_approvals'[i].status = pending_approvals[i].status
     /\ (ev'.type = "decision" /\ ev'.req.late) =>
          /\ UNCHANGED <<pending_approvals, clubs, shops>>
          /\ (ev'.req.looked /\ ~ev'.req.findError) =>
               (ev'.status = 400 /\ ev'.body = NotFoundOrExpired)]_vars

\* a retry is answered NotFoundOrExpired while the approval is decided and
\* the club still pending
C14_Witness ==
  /\ ev.type = "decision" /\ ev.req.late /\ ev.req.looked
  /\ ev.status = 400 /\ ev.body = NotFoundOrExpired
  /\ \E i \in RowsWithToken(ev.req.token) :
       /\ Stuck(i)
       /\ pending_approvals[i].status = "approved"
       /\ clubs[pending_approvals[i].item_id].status = "pending"

\* C15, as claimed: a decision request whose token is no canonical UUID
\* string, or whose action is neither approve nor reject, is answered 400
\* {error: 'Invalid request'}, and no lookup or write is made.
C15_MalformedIsInvalidRequest ==
  (ev.type = "decision" /\ ev.req.malformed) =>
     /\ ev.status = 400 /\ ev.body = "Invalid request"
     /\ ~ev.req.looked /\ ~ev.req.wroteApproval /\ ~ev.req.wroteItem

\* C15, amended: such a request, when the rate limiter lets it through, is
\* answered 400 {error: 'Invalid request'} whichever check failed; when the
\* limiter rejects it, it is answered 429.  In both cases no lookup or write
\* is made.
C15_MalformedIsRefused ==
  /\ \A s \in Slots : ~dreq[s].malformed
  /\ (ev.type = "decision" /\ ev.req.malformed) =>
       /\ ev.limiter.called
       /\ ev.limiter.allowed => (ev.status = 400 /\ ev.body = "Invalid request")
       /\ ~ev.limiter.allowed => ev.status = 429
       /\ ~ev.req.looked /\ ~ev.req.wroteApproval /\ ~ev.req.wroteItem

C15_Witness ==
  /\ ev.type = "decision" /\ ev.req.malformed /\ ev.limiter.allowed
  /\ ev.status = 400 /\ ev.body = "Invalid request"
  /\ Len(pending_approvals) = 1

\* C16: once the AR view is dismissed and every camera and permission request
\* it made has settled, no camera track it acquired is still live and no
\* deviceorientation listener it registered remains.
C16_ResourcesReleasedAfterDismissal ==
  (/\ ar.opened /\ ~ar.mounted
   /\ \A e \in 1..Len(ar.effects) : ar.effects[e].pc = "done") =>
     (ar.tracks = {} /\ ar.listeners = {})

\* C17: for every user location, target and heading in [0, 360), the bearing
\* is in [0, 360) (also when the two points coincide) and the relative angle
\* got from it by the one adjustment is in [-180, 180].
C17_BearingAndRelativeAngleInRange ==
  (ev.type = "marker" /\ ev.userLocation # Null) =>
     /\ 0 <= ev.bearing /\ ev.bearing < Deg(360)
     /\ -Deg(180) <= relativeAngle(ev.bearing, ev.heading)
     /\ relativeAngle(ev.bearing, ev.heading) <= Deg(180)
     /\ (relativeAngle(ev.bearing, ev.heading) - (ev.bearing - ev.heading))
          % Deg(360) = 0

\* the target lies to the west, the device looks just west of north
C17_Witness ==
  /\ ev.type = "marker" /\ ev.userLocation # Null
  /\ ev.bearing = Deg(270) /\ ev.heading = Deg(30)
  /\ relativeAngle(ev.bearing, ev.heading) = -Deg(120)

\* the angle from the heading to the bearing, the short way round
AngleOff(bearing, heading) ==
  ((bearing - heading + Deg(540)) % Deg(360)) - Deg(180)

\* C18: a marker comes back for a target exactly when a user location is
\* known and the target is at most 60 degrees off the heading: at exactly 60
\* degrees it is shown, beyond them it is not.
C18_MarkerIffWithinSixtyDegrees ==
  ev.type = "marker" =>
     (ev.marker # Null <=>
        (ev.userLocation # Null /\ Abs(AngleOff(ev.bearing, ev.heading)) <= Deg(60)))

C18_Witness ==
  /\ ev.type = "marker" /\ ev.marker # Null
  /\ ev.bearing = Deg(90) /\ ev.heading = Deg(30)

\* the path has a folder, and its first segment is the caller's identity
UnderOwnFolder(caller, name) ==
  Len(name) >= 2 /\ caller.role = "authenticated" /\ name[1] = caller.uid

\* C19: an insert, update or delete of an object is permitted only to an
\* authenticated caller, in the bucket app-images, when the first folder of
\* the object's path (and of the path it is moved to) is the caller's own
\* identity, and it is permitted then; reading an object of that bucket is
\* permitted to every caller.  So every object stored lies under the folder
\* of some caller.
C19_WritesOnlyUnderOwnFolder ==
  /\ ev.type = "storage" =>
       IF ev.op = "select" THEN ev.bucket_id = "app-images" => ev.permitted
       ELSE ev.permitted <=>
              /\ ev.bucket_id = "app-images"
              /\ UnderOwnFolder(ev.caller, ev.name)
              /\ UnderOwnFolder(ev.caller, ev.newName)
  /\ \A o \in objects :
       /\ o.bucket_id = "app-images"
       /\ \E c \in Callers : UnderOwnFolder(c, o.name)

\* u2 is refused the removal of an object of u1 that anyone may read
C19_Witness ==
  /\ ev.type = "storage" /\ ev.op = "delete" /\ ~ev.permitted
  /\ ev.caller.uid = "u2" /\ ev.name = <<"u1", "clubs", "a.png">>
  /\ [bucket_id |-> "app-images", name |-> <<"u1", "clubs", "a.png">>] \in objects

\* the five entities sanitizeForHtml writes
HtmlEntities ==
  { <<"&", "a", "m", "p", ";">>, <<"&", "l", "t", ";">>, <<"&", "g", "t", ";">>,
    <<"&", "q", "u", "o", "t", ";">>, <<"&", "#", "x", "2", "7", ";">> }
\* none of < > " ' in w, and every & of w starts one of the five entities
NoRawMarkup(w) ==
  \A k \in 1..Len(w) :
    /\ w[k] \notin {"<", ">", "\"", "'"}
    /\ w[k] = "&" =>
         \E e \in HtmlEntities :
           k + Len(e) - 1 <= Len(w) /\ SubSeq(w, k, k + Len(e) - 1) = e
UserParts == { "itemName", "submitterName", "submitterEmail", "description" }
PartsOf(m) ==
  { m.subject[k] : k \in 1..Len(m.subject) } \cup { m.html[k] : k \in 1..Len(m.html) }
Supplied(field) ==
  IF field = "description"
  THEN mail.data.description # Undefined /\ mail.data.description # Null
         /\ Length(mail.data.description) # 0
  ELSE TRUE

\* C20: in the e-mail the issuer composes, every occurrence of the item name,
\* the submitter's name and e-mail address and the description is the output
\* of sanitizeForHtml for it, and that output holds none of the characters
\* < > " ' and no & that does not start one of the five entities.
C20_UserTextIsEscaped ==
  mail.composed =>
    /\ \A q \in PartsOf(mail) :
         q.part \in UserParts =>
           /\ q.text = sanitizeForHtml(mail.data[q.part])
           /\ NoRawMarkup(q.text.chars)
           /\ Length(q.text) >= Length(mail.data[q.part])
    /\ \A f \in UserParts :
         Supplied(f) <=> \E k \in 1..Len(mail.html) : mail.html[k].part = f

\* a submitter's name <s> is in the body as &lt;s&gt;
C20_Witness ==
  /\ mail.composed
  /\ mail.data.submitterName = Str(<<"<", "s", ">">>, 0)
  /\ mail.data.itemName = Str(<<"\"", "'">>, 2)
  /\ \E k \in 1..Len(mail.html) :
       /\ mail.html[k].part = "submitterName"
       /\ mail.html[k].text.chars = <<"&", "l", "t", ";", "s", "&", "g", "t", ";">>

\* the pending rows with the token t that are at most 30 days old
PendingInTime(t) ==
  { i \in RowsWithToken(t) :
      /\ pending_approvals[i].status = "pending"
      /\ now - pending_approvals[i].created_at <= 30 * DaySecs }

\* C21: the lookup of the decision processor matches a pending row exactly
\* when it was created no earlier than 30 days ago: a row created exactly 30
\* days ago is found, an older one is answered as not found, and the lookup
\* leaves the table as it is (the expired row stays, pending).
C21_ExpiryBoundary ==
  [][\A s \in Slots :
       (dreq[s].pc = "find" /\ dreq'[s].pc # "find") =>
          /\ UNCHANGED pending_approvals
          /\ dreq'[s].pc = "updateApproval" =>
               dreq'[s].approval \in PendingInTime(dreq[s].token)
          /\ PendingInTime(dreq[s].token) # {} =>
               \/ dreq'[s].pc = "updateApproval"
               \/ (ev'.type = "decision" /\ ev'.req.findError /\ ev'.status = 500)
          /\ (PendingInTime(dreq[s].token) = {} /\ ~ev'.req.findError) =>
               /\ ev'.status = 400 /\ ev'.body = NotFoundOrExpired
               /\ dreq'[s].pc = "idle"]_vars

\* a request has found the row that was created exactly 30 days ago
C21_Witness ==
  \E s \in Slots :
    /\ dreq[s].pc = "updateApproval"
    /\ now - pending_approvals[dreq[s].approval].created_at = 30 * DaySecs
    /\ pending_approvals[dreq[s].approval].status = "pending"

RECURSIVE Blanks(_)
Blanks(n) == IF n = 0 THEN <<>> ELSE <<" ">> \o Blanks(n - 1)

\* the header's first entry is `key` between blanks, and `key` has none at
\* its ends
IsTrimmedFirstEntry(key, header) ==
  /\ key # <<>> /\ Head(key) # " " /\ key[Len(key)] # " "
  /\ \E i, j \in 0..Len(header.entries[1]) :
       header.entries[1] = Blanks(i) \o key \o Blanks(j)

\* C22: the limiter's key is the trimmed first comma-separated entry of
\* x-forwarded-for, and 'unknown' when the header is missing or that entry is
\* empty; a request changes the timestamps of its own key only, and leaves
\* whether a request under any other key would be accepted as it was.
C22_AllowanceIsPerKey ==
  [][(ev'.type \in {"decision", "received"} /\ ev'.limiter.called) =>
       LET key == ev'.limiter.key
           header == ev'.limiter.header
           blank == \/ ~header.present
                    \/ \A i \in 1..Len(header.entries[1]) :
                         header.entries[1][i] = " "
       IN
       /\ blank => key = <<"unknown">>
       /\ ~blank => IsTrimmedFirstEntry(key, header)
       /\ \A k \in DOMAIN rateLimiter \ {key} :
            /\ rateLimiter'[k] = rateLimiter[k]
            /\ accepted'[k] = accepted[k]
            /\ checkRateLimit(k)' = checkRateLimit(k)]_vars

\* a request with an empty first entry is rejected on the allowance that
\* requests without the header have used up, while the key "a", given with
\* blanks around it and a second entry, has requests of its own on record
C22_Witness ==
  /\ ev.type = "decision" /\ ev.status = 429 /\ ev.limiter.called
  /\ ev.limiter.header = Header(<< <<>> >>)
  /\ Len(rateLimiter[<<"unknown">>]) = 10
  /\ rateLimiter[<<"a">>] # <<>>

\* the markers a frame shows
Shown == { i \in 1..2 : ev.markers[i] # Null }

\* C23: of two targets visible in one frame, the nearer one is drawn lower on
\* the screen or level: its CSS top is at least that of the farther one.
C23_NearerIsLower ==
  ev.type = "frame" =>
    \A i, j \in Shown :
      ev.targets[i].distance <= ev.targets[j].distance =>
        ev.markers[i].top >= ev.markers[j].top

\* C30: a marker has x in [10, 90], y in [30, 80] and a scale in [0.6, 1],
\* and the scale is 0.6 from 200 m on (x in thirty-thousandths of a percent,
\* the scale in thousandths).
C30_MarkerWithinBounds ==
  ev.type = "frame" =>
    \A i \in Shown :
      /\ 10 * 30000 <= ev.markers[i].left /\ ev.markers[i].left <= 90 * 30000
      /\ 30 <= ev.markers[i].top /\ ev.markers[i].top <= 80
      /\ 600 <= ev.markers[i].scale /\ ev.markers[i].scale <= 1000
      /\ ev.targets[i].distance >= 200 => ev.markers[i].scale = 600

\* a frame with a marker at the right edge, 200 m away, and one straight
\* ahead, 199 m away, whose scale is still above 0.6
C30_Witness ==
  /\ ev.type = "frame" /\ Shown = {1, 2}
  /\ ev.markers[1].left = 90 * 30000 /\ ev.targets[1].distance = 200
  /\ ev.markers[1].scale = 600
  /\ ev.targets[2].distance = 199 /\ ev.markers[2].scale = 602

\* the item has the final status that a decision on one of its tokens wrote
DecidedByRequest(name, id) ==
  /\ Decided(name, id)
  /\ \E i \in 1..Len(pending_approvals) :
       /\ tableName(pending_approvals[i].item_type) = name
       /\ pending_approvals[i].item_id = id
       /\ pending_approvals[i].status = Table(name)[id].status

\* C24: once a successful decision has set the status of an item to approved
\* or rejected, no later decision request changes that status, also when
\* several tokens were issued for the item.
C24_DecidedStatusIsFinal ==
  [][\A s \in Slots :
       dreq[s].pc = "updateItem" =>
         /\ \A id \in ClubIds :
              DecidedByRequest("clubs", id) => clubs'[id].status = clubs[id].status
         /\ \A id \in ShopIds :
              DecidedByRequest("shops", id) => shops'[id].status = shops[id].status]_vars

\* a decision with action approve went through on a token issued for the item
ApprovedByRequest(name, id) ==
  \E i \in 1..Len(pending_approvals) :
    /\ tableName(pending_approvals[i].item_type) = name
    /\ pending_approvals[i].item_id = id
    /\ pending_approvals[i].status = "approved"

\* C25: a club or shop has status approved only if a decision request with
\* action approve succeeded on a token issued for it; no other operation
\* creates or sets an entity with status approved.
C25_ApprovedOnlyByDecision ==
  /\ \A id \in ClubIds :
       (clubs[id].exists /\ clubs[id].status = "approved") =>
         ApprovedByRequest("clubs", id)
  /\ \A id \in ShopIds :
       (shops[id].exists /\ shops[id].status = "approved") =>
         ApprovedByRequest("shops", id)

\* C26: whenever the club submission form shows the approve and reject links
\* of a token, a pending row of pending_approvals carries that token, also
\* when the insert into pending_approvals fails.
C26_ShownLinksHaveARow ==
  (ev.type = "form" /\ ev.shown) =>
    \E i \in 1..Len(pending_approvals) :
      /\ pending_approvals[i].approval_token = ev.approvalToken
      /\ pending_approvals[i].status = "pending"

\* C27: no value the caller controls is in the e-mail unescaped: the fields
\* of the body are escaped, and the base URL of the approve and reject links,
\* which comes from the Origin header, is escaped too or is the trusted
\* default.
C27_NoRawRequestValueInEmail ==
  mail.composed =>
    \A q \in PartsOf(mail) :
      /\ q.part \in UserParts => NoRawMarkup(q.text.chars)
      /\ q.part \in {"approveUrl", "rejectUrl"} =>
           (NoRawMarkup(q.text.chars) \/ q.text = DefaultBaseUrl)

\* C28: in a mounted view with the camera permission granted the acquisition
\* of the camera settles: a run of the effect that finds a granted stream in
\* the state does not call getUserMedia again, so that the calls are finitely
\* many and the effect stops re-running (every run in ar.effects has called
\* getUserMedia, with the stream of its render in its closure).
C28_CameraAcquisitionSettles ==
  \A e \in 1..Len(ar.effects) : ar.effects[e].stream = 0

\* C29: the limiter runs before the body is read, and every request it lets
\* through uses up one unit of its key's allowance whatever the answer is:
\* neither a validation failure nor a later answer (not found, failure,
\* success) gives the unit back, and with ten requests of the window on
\* record a well-formed request is answered 429.
C29_EveryAcceptedRequestCounts ==
  [][/\ (ev'.type = "received" \/ (ev'.type = "decision" /\ ~ev'.req.looked)) =>
          /\ ev'.limiter.called
          /\ ev'.limiter.allowed =>
               rateLimiter'[ev'.limiter.key] =
                 Append(recentRequests(ev'.limiter.key), now)
          /\ (Len(recentRequests(ev'.limiter.key)) = 10) =>
               (ev'.type = "decision" /\ ev'.status = 429)
     /\ (ev'.type = "decision" /\ ev'.req.looked) => UNCHANGED rateLimiter]_vars

\* ten malformed requests without the header are on record, at two times
\* within the window, and a well-formed request is answered 429
C29_Witness ==
  /\ ev.type = "decision" /\ ev.status = 429
  /\ ev.limiter.called /\ ev.limiter.wellFormed
  /\ ev.limiter.key = <<"unknown">>
  /\ Len(rateLimiter[<<"unknown">>]) = 10
  /\ rateLimiter[<<"unknown">>][1] < rateLimiter[<<"unknown">>][10]
====
